---- MODULE Spec2Model ----
(***************************************************************************)
(* A model of rust_calc (src/src/main.rs): the recognizer                  *)
(* parse_expression, the evaluator calculate, and the read loop of main    *)
(* with the Calculator's memory register and history list.                 *)
(*                                                                         *)
(* Text is a sequence of one-character strings.  An f64 is one of          *)
(*   [t |-> "rat", n, d]   a finite value, the exact rational n/d, d > 0   *)
(*   [t |-> "lit", ...]    a finite non-zero value parsed from a decimal   *)
(*                         literal with more than MaxExactDigits digits    *)
(*   [t |-> "inf", neg]    an infinity                                     *)
(*   [t |-> "sym", ...]    the value of a libm function that has no        *)
(*                         rational result (sqrt, sin, log10, ...)         *)
(* Rounding of finite values is not modelled; -0.0 and 0.0, which compare  *)
(* equal in every test the program makes, are one value.  The widths of    *)
(* u64 and f64 are scaled down (U64_MAX, F64_MAX) keeping their order:     *)
(* the factorial overflows f64 long before its argument saturates u64.     *)
(***************************************************************************)
EXTENDS Integers, Sequences, FiniteSets, TLC

VARIABLES
    pc,        \* position of main: "read", "fold", "done" (or of the pure pipeline)
    rd,        \* what rl.readline returned last (main.rs:202)
    op,        \* the Result of parse_expression for the current line
    res,       \* the Result of calculate for the current line
    out,       \* the last message main displayed
    memory,    \* Calculator.memory (main.rs:8)
    history,   \* Calculator.history (main.rs:9)
    consumed,  \* ghost: the trimmed lines main has finished handling, in order
    fold_acc, fold_x, fold_n  \* acc, x and n of the fold of Factorial (main.rs:113-114)

vars == <<pc, rd, op, res, out, memory, history, consumed, fold_acc, fold_x, fold_n>>

(***************************************************************************)
(* Bounds of the model.                                                    *)
(***************************************************************************)
F64_MAX == 100000        \* stands for f64::MAX: a larger magnitude is an infinity
U64_MAX == 10            \* stands for u64::MAX: `a as u64` saturates here
MaxExactDigits == 4      \* literals with more digits are kept as "lit" values
MaxLinesRead == 2        \* lines the read loop handles in one run

(***************************************************************************)
(* Characters and text.                                                    *)
(***************************************************************************)
AsciiDigits == {"0", "1", "2", "3", "4", "5", "6", "7", "8", "9"}

\* ARABIC-INDIC DIGIT THREE: a character of the Unicode class \d that is no
\* ASCII digit.
ArabicThree == "U+0663"

DigitVal(c) ==
    CASE c = "0" -> 0 [] c = "1" -> 1 [] c = "2" -> 2 [] c = "3" -> 3
      [] c = "4" -> 4 [] c = "5" -> 5 [] c = "6" -> 6 [] c = "7" -> 7
      [] c = "8" -> 8 [] c = "9" -> 9

\* The regex classes \d and \s (Unicode-aware in the regex crate).
IsDigitClass(c) == c \in AsciiDigits \cup {ArabicThree}
IsSpaceClass(c) == c \in {" ", "\t"}

OpChars == {"+", "-", "*", "/", "^"}

UpperMap ==
    [c \in {"A", "B", "C", "D", "E", "F", "G", "H", "I", "J", "K", "L", "M",
            "N", "O", "P", "Q", "R", "S", "T", "U", "V", "W", "X", "Y", "Z"} |->
        CASE c = "A" -> "a" [] c = "B" -> "b" [] c = "C" -> "c" [] c = "D" -> "d"
          [] c = "E" -> "e" [] c = "F" -> "f" [] c = "G" -> "g" [] c = "H" -> "h"
          [] c = "I" -> "i" [] c = "J" -> "j" [] c = "K" -> "k" [] c = "L" -> "l"
          [] c = "M" -> "m" [] c = "N" -> "n" [] c = "O" -> "o" [] c = "P" -> "p"
          [] c = "Q" -> "q" [] c = "R" -> "r" [] c = "S" -> "s" [] c = "T" -> "t"
          [] c = "U" -> "u" [] c = "V" -> "v" [] c = "W" -> "w" [] c = "X" -> "x"
          [] c = "Y" -> "y" [] c = "Z" -> "z"]

\* str::to_lowercase (main.rs:122)
to_lowercase(s) ==
    [i \in 1..Len(s) |-> IF s[i] \in DOMAIN UpperMap THEN UpperMap[s[i]] ELSE s[i]]

Drop(s, k) == SubSeq(s, k + 1, Len(s))

starts_with(s, p) == Len(s) >= Len(p) /\ SubSeq(s, 1, Len(p)) = p

\* str::replace (main.rs:125-126): every non-overlapping occurrence of pat,
\* found left to right, is replaced by rep; the replacement is not rescanned.
RECURSIVE replace(_, _, _)
replace(s, pat, rep) ==
    IF Len(s) < Len(pat) THEN s
    ELSE IF starts_with(s, pat) THEN rep \o replace(Drop(s, Len(pat)), pat, rep)
    ELSE <<Head(s)>> \o replace(Tail(s), pat, rep)

\* str::trim (main.rs:205, 219, 225)
RECURSIVE trim_start(_)
trim_start(s) ==
    IF s # <<>> /\ IsSpaceClass(Head(s)) THEN trim_start(Tail(s)) ELSE s

RECURSIVE trim_end(_)
trim_end(s) ==
    IF s # <<>> /\ IsSpaceClass(s[Len(s)]) THEN trim_end(SubSeq(s, 1, Len(s) - 1)) ELSE s

trim(s) == trim_end(trim_start(s))

\* PI.to_string() and E.to_string() (main.rs:125-126): the shortest decimal
\* that reads back as the constant.
PI_STR == <<"3", ".", "1", "4", "1", "5", "9", "2", "6", "5", "3", "5", "8", "9", "7", "9", "3">>
E_STR  == <<"2", ".", "7", "1", "8", "2", "8", "1", "8", "2", "8", "4", "5", "9", "0", "4", "5">>

(***************************************************************************)
(* f64 values and arithmetic.                                              *)
(***************************************************************************)
None == [t |-> "none"]

Ok(v)  == [t |-> "Ok", v |-> v]
Err(m) == [t |-> "Err", e |-> m]

AbsInt(i) == IF i < 0 THEN -i ELSE i

RECURSIVE Gcd(_, _)
Gcd(a, b) == IF b = 0 THEN a ELSE Gcd(b, a % b)

Inf(neg) == [t |-> "inf", neg |-> neg]

\* The f64 nearest n/d (d # 0): exact when finite; an infinity beyond F64_MAX;
\* zero below the smallest magnitude.
MkRat(n, d) ==
    LET s  == IF d < 0 THEN -1 ELSE 1
        nn == s * n
        dd == s * d
        g  == Gcd(AbsInt(nn), dd)
    IN  IF nn = 0 THEN [t |-> "rat", n |-> 0, d |-> 1]
        ELSE IF AbsInt(nn) \div dd > F64_MAX THEN Inf(nn < 0)
        ELSE IF dd \div AbsInt(nn) > F64_MAX THEN [t |-> "rat", n |-> 0, d |-> 1]
        ELSE [t |-> "rat", n |-> nn \div g, d |-> dd \div g]

FromInt(i) == MkRat(i, 1)

Sym(f, a, b) == [t |-> "sym", f |-> f, a |-> a, b |-> b]

IsRat(v) == v.t = "rat"

\* v == 0.0
IsZero(v) == IsRat(v) /\ v.n = 0

\* v < 0.0   (operands of calculate come from from_str: "rat" or "lit")
IsNeg(v) ==
    CASE v.t = "rat" -> v.n < 0
      [] v.t = "lit" -> v.neg
      [] v.t = "inf" -> v.neg
      [] OTHER -> FALSE

\* v.fract() != 0.0
HasFract(v) ==
    CASE v.t = "rat" -> v.d # 1
      [] v.t = "lit" -> v.fp # <<>>
      [] OTHER -> TRUE

F64Add(a, b) ==
    IF IsRat(a) /\ IsRat(b) THEN MkRat(a.n * b.d + b.n * a.d, a.d * b.d)
    ELSE Sym("add", a, b)

F64Sub(a, b) ==
    IF IsRat(a) /\ IsRat(b) THEN MkRat(a.n * b.d - b.n * a.d, a.d * b.d)
    ELSE Sym("sub", a, b)

F64Mul(a, b) ==
    IF IsRat(a) /\ IsRat(b) THEN MkRat(a.n * b.n, a.d * b.d)
    ELSE IF a.t = "inf" /\ IsRat(b) /\ b.n # 0 THEN Inf(a.neg # (b.n < 0))
    ELSE IF b.t = "inf" /\ IsRat(a) /\ a.n # 0 THEN Inf(b.neg # (a.n < 0))
    ELSE Sym("mul", a, b)

\* a / b for b # 0.0
F64Div(a, b) ==
    IF IsRat(a) /\ IsRat(b) /\ b.n # 0 THEN MkRat(a.n * b.d, a.d * b.n)
    ELSE Sym("div", a, b)

RECURSIVE PowInt(_, _)
PowInt(a, k) == IF k = 0 THEN FromInt(1) ELSE F64Mul(PowInt(a, k - 1), a)

\* f64::powf (main.rs:84): exact for an integer exponent, otherwise the libm value.
powf(a, b) ==
    IF IsRat(a) /\ IsRat(b) /\ b.d = 1
    THEN IF b.n >= 0 THEN PowInt(a, b.n)
         ELSE IF a.n = 0 THEN Inf(FALSE)
         ELSE PowInt(MkRat(a.d, a.n), -b.n)
    ELSE Sym("powf", a, b)

\* f64::abs (main.rs:117)
F64Abs(a) ==
    CASE a.t = "rat" -> [a EXCEPT !.n = AbsInt(a.n)]
      [] a.t = "lit" -> [a EXCEPT !.neg = FALSE]
      [] a.t = "inf" -> Inf(FALSE)
      [] OTHER -> Sym("abs", a, None)

\* a cast that wraps instead of saturating
AsU64_wrapping(a) == IF IsRat(a) THEN a.n % (U64_MAX + 1) ELSE 0

\* `a as u64` for a >= 0 without fraction (main.rs:113): saturating.
AsU64(a) ==
    IF IsRat(a) THEN (IF a.n > U64_MAX THEN U64_MAX ELSE a.n) ELSE U64_MAX

(***************************************************************************)
(* f64::from_str (main.rs:135, 136, 147, 219, 225) on decimal text: an     *)
(* optional sign, digits with at most one point, at least one digit.       *)
(* Exponent, "inf" and "nan" forms are not among the modelled texts.       *)
(***************************************************************************)
RECURSIVE StripLeadingZeros(_)
StripLeadingZeros(s) ==
    IF s # <<>> /\ Head(s) = "0" THEN StripLeadingZeros(Tail(s)) ELSE s

RECURSIVE StripTrailingZeros(_)
StripTrailingZeros(s) ==
    IF s # <<>> /\ s[Len(s)] = "0" THEN StripTrailingZeros(SubSeq(s, 1, Len(s) - 1)) ELSE s

RECURSIVE DigitsToInt(_)
DigitsToInt(s) ==
    IF s = <<>> THEN 0 ELSE 10 * DigitsToInt(SubSeq(s, 1, Len(s) - 1)) + DigitVal(s[Len(s)])

RECURSIVE Pow10(_)
Pow10(k) == IF k = 0 THEN 1 ELSE 10 * Pow10(k - 1)

from_str(s) ==
    LET signed == s # <<>> /\ Head(s) \in {"+", "-"}
        neg    == s # <<>> /\ Head(s) = "-"
        body   == IF signed THEN Tail(s) ELSE s
        dots   == {i \in 1..Len(body) : body[i] = "."}
        wellformed ==
            /\ Cardinality(dots) <= 1
            /\ \A i \in 1..Len(body) : body[i] = "." \/ body[i] \in AsciiDigits
            /\ \E i \in 1..Len(body) : body[i] \in AsciiDigits
        dot == IF dots = {} THEN Len(body) + 1 ELSE CHOOSE i \in dots : TRUE
        ip  == StripLeadingZeros(SubSeq(body, 1, dot - 1))
        fp  == StripTrailingZeros(SubSeq(body, dot + 1, Len(body)))
        m   == DigitsToInt(ip \o fp)
    IN  IF ~wellformed THEN Err("ParseFloatError")
        ELSE IF Len(ip) + Len(fp) <= MaxExactDigits
             THEN Ok(MkRat(IF neg THEN -m ELSE m, Pow10(Len(fp))))
        ELSE Ok([t |-> "lit", neg |-> neg, ip |-> ip, fp |-> fp])

(***************************************************************************)
(* The two anchored patterns of parse_expression.  A pattern is run as the *)
(* set of positions each of its pieces can end at; both patterns split a   *)
(* text in at most one way, so the captures do not depend on the regex     *)
(* engine's preference order.                                              *)
(***************************************************************************)
RECURSIVE DigitRun(_, _)
DigitRun(s, i) == IF i <= Len(s) /\ IsDigitClass(s[i]) THEN 1 + DigitRun(s, i + 1) ELSE 0

RECURSIVE SpaceRun(_, _)
SpaceRun(s, i) == IF i <= Len(s) /\ IsSpaceClass(s[i]) THEN 1 + SpaceRun(s, i + 1) ELSE 0

\* -?\d*\.?\d+ from position i: the positions right after a match.
NumberEnds(s, i) ==
    LET afterSign == {i} \cup (IF i <= Len(s) /\ s[i] = "-" THEN {i + 1} ELSE {})
        afterInt  == UNION {p..(p + DigitRun(s, p)) : p \in afterSign}
        afterDot  == afterInt \cup {p + 1 : p \in {q \in afterInt : q <= Len(s) /\ s[q] = "."}}
    IN  UNION {(p + 1)..(p + DigitRun(s, p)) : p \in afterDot}

\* \s* from position i.
SpaceEnds(s, i) == i..(i + SpaceRun(s, i))

\* the pattern without its closing anchor: text may follow the second number
basic_op_regex_unanchored(s) ==
    UNION {UNION {UNION {{<<SubSeq(s, 1, e1 - 1), s[o], SubSeq(s, b3, e3 - 1)>> :
                                e3 \in NumberEnds(s, b3)} :
                         b3 \in SpaceEnds(s, o + 1)} :
                  o \in {p \in SpaceEnds(s, e1) : p <= Len(s) /\ s[p] \in OpChars}} :
           e1 \in NumberEnds(s, 1)}

\* ^(-?\d*\.?\d+)\s*([\+\-\*/\^])\s*(-?\d*\.?\d+)$   (main.rs:129)
\* The set of capture triples <<caps[1], caps[2], caps[3]>>.
basic_op_regex(s) ==
    UNION {UNION {{<<SubSeq(s, 1, e1 - 1), s[o], SubSeq(s, b3, Len(s))>> :
                        b3 \in {q \in SpaceEnds(s, o + 1) : (Len(s) + 1) \in NumberEnds(s, q)}} :
                  o \in {p \in SpaceEnds(s, e1) : p <= Len(s) /\ s[p] \in OpChars}} :
           e1 \in NumberEnds(s, 1)}

Keywords ==
    {<<"s", "q", "r", "t">>, <<"s", "i", "n">>, <<"c", "o", "s">>, <<"t", "a", "n">>,
     <<"l", "o", "g">>, <<"l", "n">>, <<"a", "b", "s">>, <<"f", "a", "c", "t">>}

\* ^(sqrt|sin|cos|tan|log|ln|abs|fact)\s*\(?(-?\d*\.?\d+)\)?$   (main.rs:132)
\* The set of capture pairs <<caps[1], caps[2]>>.
func_regex(s) ==
    UNION {UNION {{<<k, SubSeq(s, b2, e2 - 1)>> :
                        e2 \in {q \in NumberEnds(s, b2) :
                                    \/ q = Len(s) + 1
                                    \/ q = Len(s) /\ s[q] = ")"}} :
                  b2 \in UNION {{p} \cup (IF p <= Len(s) /\ s[p] = "(" THEN {p + 1} ELSE {}) :
                                    p \in SpaceEnds(s, Len(k) + 1)}} :
           k \in {w \in Keywords : starts_with(s, w)}}

(***************************************************************************)
(* enum Operation (main.rs:56-70)                                          *)
(***************************************************************************)
Binary(tag, a, b) == [tag |-> tag, a |-> a, b |-> b]
Unary(tag, a)     == [tag |-> tag, a |-> a]

\* the operands taken in the wrong order
BinaryVariant_swapped(c, a, b) ==
    CASE c = "+" -> Ok(Binary("Add", b, a))
      [] c = "-" -> Ok(Binary("Subtract", b, a))
      [] c = "*" -> Ok(Binary("Multiply", b, a))
      [] c = "/" -> Ok(Binary("Divide", b, a))
      [] c = "^" -> Ok(Binary("Power", b, a))
      [] OTHER   -> Err("Unknown operator")

\* match &caps[2] (main.rs:138-145)
BinaryVariant(c, a, b) ==
    CASE c = "+" -> Ok(Binary("Add", a, b))
      [] c = "-" -> Ok(Binary("Subtract", a, b))
      [] c = "*" -> Ok(Binary("Multiply", a, b))
      [] c = "/" -> Ok(Binary("Divide", a, b))
      [] c = "^" -> Ok(Binary("Power", a, b))
      [] OTHER   -> Err("Unknown operator")

\* match &caps[1] (main.rs:149-159)
FunctionVariant(k, num) ==
    CASE k = <<"s", "q", "r", "t">> -> Ok(Unary("SquareRoot", num))
      [] k = <<"s", "i", "n">>      -> Ok(Unary("Sine", num))
      [] k = <<"c", "o", "s">>      -> Ok(Unary("Cosine", num))
      [] k = <<"t", "a", "n">>      -> Ok(Unary("Tangent", num))
      [] k = <<"l", "o", "g">>      -> Ok(Unary("Logarithm", num))
      [] k = <<"l", "n">>           -> Ok(Unary("NaturalLog", num))
      [] k = <<"a", "b", "s">>      -> Ok(Unary("Absolute", num))
      [] k = <<"f", "a", "c", "t">> -> Ok(Unary("Factorial", num))
      [] OTHER                      -> Err("Unknown function")

\* the constants substituted before the case is folded
normalize_case_sensitive(input) ==
    to_lowercase(replace(replace(input, <<"p", "i">>, PI_STR), <<"e">>, E_STR))

\* The text the patterns are tried on (main.rs:122-126).
normalize(input) ==
    replace(replace(to_lowercase(input), <<"p", "i">>, PI_STR), <<"e">>, E_STR)

\* fn parse_expression (main.rs:121-163)
parse_expression(input) ==
    LET s     == normalize(input)
        basic == basic_op_regex(s)
        func  == func_regex(s)
    IN  IF basic # {}
        THEN LET caps == CHOOSE c \in basic : TRUE
                 a == from_str(caps[1])
                 b == from_str(caps[3])
             IN  IF a.t = "Err" THEN Err("Invalid first number")
                 ELSE IF b.t = "Err" THEN Err("Invalid second number")
                 ELSE BinaryVariant(caps[2], a.v, b.v)
        ELSE IF func # {}
        THEN LET caps == CHOOSE c \in func : TRUE
                 num == from_str(caps[2])
             IN  IF num.t = "Err" THEN Err("Invalid number")
                 ELSE FunctionVariant(caps[1], num.v)
        ELSE Err("Invalid expression format")

(***************************************************************************)
(* fn calculate (main.rs:72-119)                                           *)
(***************************************************************************)
\* |acc, x| acc * x as f64 (main.rs:114)
FoldBody(a, i) == F64Mul(a, FromInt(i))

\* (1..=n).fold(1.0, ...) from the state (a, i): main.rs:114
RECURSIVE fold(_, _, _)
fold(a, i, last) == IF i > last THEN a ELSE fold(FoldBody(a, i), i + 1, last)

\* guards a slip would write
DivideFails_nonpositive(b)       == IsNeg(b) \/ IsZero(b)
SqrtFails_nonpositive(a)         == IsNeg(a) \/ IsZero(a)
FactorialFails_negative_only(a)  == IsNeg(a)

\* The guard of each arm that can fail.
DivideFails(b)    == IsZero(b)
SqrtFails(a)      == IsNeg(a)
LogFails(a)       == IsNeg(a) \/ IsZero(a)
LnFails(a)        == IsNeg(a) \/ IsZero(a)
FactorialFails(a) == IsNeg(a) \/ HasFract(a)

calculate(o) ==
    CASE o.tag = "Add"      -> Ok(F64Add(o.a, o.b))
      [] o.tag = "Subtract" -> Ok(F64Sub(o.a, o.b))
      [] o.tag = "Multiply" -> Ok(F64Mul(o.a, o.b))
      [] o.tag = "Divide"   ->
            IF DivideFails(o.b) THEN Err("Division by zero!")
            ELSE Ok(F64Div(o.a, o.b))
      [] o.tag = "Power"    -> Ok(powf(o.a, o.b))
      [] o.tag = "SquareRoot" ->
            IF SqrtFails(o.a) THEN Err("Cannot calculate square root of negative number!")
            ELSE Ok(Sym("sqrt", o.a, None))
      [] o.tag = "Sine"     -> Ok(Sym("to_radians.sin", o.a, None))
      [] o.tag = "Cosine"   -> Ok(Sym("to_radians.cos", o.a, None))
      [] o.tag = "Tangent"  -> Ok(Sym("to_radians.tan", o.a, None))
      [] o.tag = "Logarithm" ->
            IF LogFails(o.a) THEN Err("Cannot calculate logarithm of non-positive number!")
            ELSE Ok(Sym("log10", o.a, None))
      [] o.tag = "NaturalLog" ->
            IF LnFails(o.a) THEN Err("Cannot calculate natural logarithm of non-positive number!")
            ELSE Ok(Sym("ln", o.a, None))
      [] o.tag = "Factorial" ->
            IF FactorialFails(o.a) THEN Err("Factorial only defined for non-negative integers!")
            ELSE Ok(fold(FromInt(1), 1, AsU64(o.a)))
      [] o.tag = "Absolute" -> Ok(F64Abs(o.a))

(***************************************************************************)
(* The input lines.  A line is its text together with a description of how *)
(* the text was put together (shape, f, a, o, b, c); the program reads the *)
(* text only.                                                              *)
(***************************************************************************)
\* A decimal numeral: sign, integer digits, fraction digits.
GenInts     == {<<>>, <<"0">>, <<"2">>, <<"1", "2">>}
GenFracs    == {<<>>, <<"0">>, <<"5">>}
GenIntsMore == GenInts \cup {<<"5">>, <<"1", "1">>}

NoNum == [neg |-> FALSE, ip |-> <<>>, fp |-> <<>>]

NumeralsOver(ints) ==
    {[neg |-> s, ip |-> i, fp |-> f] : s \in BOOLEAN, i \in ints, f \in GenFracs} \
        {[neg |-> s, ip |-> <<>>, fp |-> <<>>] : s \in BOOLEAN}

Numerals     == NumeralsOver(GenInts)
NumeralsMore == NumeralsOver(GenIntsMore)
FewNumerals  == {g \in Numerals : g.ip \in {<<>>, <<"2">>} /\ g.fp \in {<<>>, <<"5">>}}

Fmt(g) ==
    (IF g.neg THEN <<"-">> ELSE <<>>) \o g.ip \o (IF g.fp = <<>> THEN <<>> ELSE <<".">> \o g.fp)

Gaps == {<<>>, <<" ">>}

Line(shape, text, f, a, o, b, c) ==
    [shape |-> shape, text |-> text, f |-> f, a |-> a, o |-> o, b |-> b, c |-> c]

\* a op b
BinaryLines ==
    {Line("bin", Fmt(a) \o w1 \o <<o>> \o w2 \o Fmt(b), <<>>, a, o, b, <<>>) :
        a \in Numerals, o \in OpChars, b \in Numerals, w1 \in Gaps, w2 \in Gaps}

\* f a, f(a), f (a, f a) ...: each parenthesis is there or not
FunctionLines ==
    {Line("fn", f \o w \o l \o Fmt(a) \o r, f, a, "", NoNum, <<>>) :
        f \in Keywords, a \in NumeralsMore, w \in Gaps, l \in {<<>>, <<"(">>}, r \in {<<>>, <<")">>}}

ConstantNames == {<<"p", "i">>, <<"P", "I">>, <<"P", "i">>, <<"e">>, <<"E">>}

\* a op pi, a op e
ConstantLines ==
    {Line("const", Fmt(a) \o w1 \o <<o>> \o w2 \o c, <<>>, a, o, NoNum, c) :
        a \in Numerals, o \in OpChars, c \in ConstantNames, w1 \in Gaps, w2 \in Gaps}

\* the letter e inside a word or a numeral
EmbeddedLines ==
    {Line("embedded", t, <<>>, NoNum, "", NoNum, <<>>) :
        t \in {<<"s", "i", "n", "e">>,
               <<"a", "b", "s", "E">>,
               <<"1", "e", "5", "+", "2">>,
               <<"2", "+", "3", "e">>,
               <<"e", "^", "e">>,
               <<"p", "i", "e">>,
               <<"h", "e", "l", "l", "o">>}}

SomeValid ==
    {l \in BinaryLines : l.a \in FewNumerals /\ l.b \in FewNumerals /\ l.o \in {"+", "/"}}
    \cup {l \in FunctionLines : l.a \in FewNumerals /\ l.f \in {<<"l", "n">>, <<"f", "a", "c", "t">>}}

\* characters no pattern matches after a complete expression, or before one
Junk == {<<"x">>, <<" ">>, <<"=">>, <<"(">>, <<"2", "x">>}

TrailingLines ==
    {Line("trailing", l.text \o j, <<>>, NoNum, "", NoNum, <<>>) : l \in SomeValid, j \in Junk}

LeadingLines ==
    {Line("leading", j \o l.text, <<>>, NoNum, "", NoNum, <<>>) : l \in SomeValid, j \in Junk}

\* `2 + `, `2 +`, `* 2`: an operand is missing
MissingOperandLines ==
    {Line("missing", Fmt(a) \o w1 \o <<o>> \o w2, <<>>, a, o, NoNum, <<>>) :
        a \in FewNumerals, o \in OpChars, w1 \in Gaps, w2 \in Gaps}
    \cup {Line("missing", <<o>> \o w1 \o Fmt(a), <<>>, NoNum, o, a, <<>>) :
            a \in FewNumerals, o \in OpChars \ {"-"}, w1 \in Gaps}

\* `sqrt`, `sqrt(`, `sqrt ()`: a function keyword with no number
BareKeywordLines ==
    {Line("bare", f \o w \o l \o r, f, NoNum, "", NoNum, <<>>) :
        f \in Keywords, w \in Gaps, l \in {<<>>, <<"(">>}, r \in {<<>>, <<")">>}}

\* `banana` and other words that are no keyword
WordLines ==
    {Line("word", t, <<>>, NoNum, "", NoNum, <<>>) :
        t \in {<<"b", "a", "n", "a", "n", "a">>, <<"x">>, <<"s", "q", "r">>,
               <<"B", "a", "n", "a", "n", "a">>, <<"l", "o", "g", "s">>, <<>>}}

\* digits of the class \d that f64::from_str does not read
UnicodeDigitLines ==
    {Line("unicode", t, <<>>, NoNum, "", NoNum, <<>>) :
        t \in {<<ArabicThree, "+", "2">>, <<"2", "+", ArabicThree>>,
               <<"s", "q", "r", "t", " ", ArabicThree>>}}

PipelineLines ==
    BinaryLines \cup FunctionLines \cup ConstantLines \cup EmbeddedLines
    \cup TrailingLines \cup LeadingLines \cup MissingOperandLines
    \cup BareKeywordLines \cup WordLines \cup UnicodeDigitLines

(***************************************************************************)
(* What main displays.                                                     *)
(***************************************************************************)
ShowResult(v)  == [kind |-> "result", v |-> v]     \* println!("{} {}", "=", result)
ShowError(e)   == [kind |-> "error", v |-> e]      \* println!("{} {}", "Error:", e)
ShowText(t)    == [kind |-> "text", v |-> t]
ShowMemory(v)  == [kind |-> "memory", v |-> v]     \* println!("Memory: {}", ...)
ShowHistory(h) == [kind |-> "history", v |-> h]    \* Calculator::show_history

(***************************************************************************)
(* Pipeline: one line through `match parse_expression(input)` and          *)
(* `match calculate(operation)` (main.rs:231-240), for every line of       *)
(* PipelineLines, with nothing else of the read loop.                      *)
(***************************************************************************)
PipelineInit ==
    /\ pc = "parse"
    /\ rd \in {[kind |-> "Ok", line |-> l] : l \in PipelineLines}
    /\ op = None
    /\ res = None
    /\ out = None
    /\ memory = FromInt(0)
    /\ history = <<>>
    /\ consumed = <<>>
    /\ fold_acc = None
    /\ fold_x = 0
    /\ fold_n = 0

Recognize ==
    /\ pc = "parse"
    /\ op' = parse_expression(rd.line.text)
    /\ pc' = "calc"
    /\ UNCHANGED <<rd, res, out, memory, history, consumed, fold_acc, fold_x, fold_n>>

Evaluate ==
    /\ pc = "calc"
    /\ op.t = "Ok"
    /\ res' = calculate(op.v)
    /\ out' = IF res'.t = "Ok" THEN ShowResult(res'.v) ELSE ShowError(res'.e)
    /\ pc' = "end"
    /\ UNCHANGED <<rd, op, memory, history, consumed, fold_acc, fold_x, fold_n>>

Reject ==
    /\ pc = "calc"
    /\ op.t = "Err"
    /\ out' = ShowError(op.e)
    /\ pc' = "end"
    /\ UNCHANGED <<rd, op, res, memory, history, consumed, fold_acc, fold_x, fold_n>>

PipelineNext == Recognize \/ Evaluate \/ Reject

Pipeline == PipelineInit /\ [][PipelineNext]_vars

(***************************************************************************)
(* impl Calculator (main.rs:12-53).  A history entry stands for the string *)
(* format!("{} = {}", expression, result).                                 *)
(***************************************************************************)
store_in_memory(m, value) == value                       \* main.rs:20-23
add_to_memory(m, value)   == F64Add(m, value)            \* main.rs:25-28
recall_memory(m)          == m                           \* main.rs:30-32
clear_memory(m)           == FromInt(0)                  \* main.rs:34-37

\* the entry put in front
add_to_history_front(h, expression, result) ==
    <<[expression |-> expression, result |-> result]>> \o h

add_to_history(h, expression, result) ==                 \* main.rs:39-41
    Append(h, [expression |-> expression, result |-> result])

(***************************************************************************)
(* fn main (main.rs:194-258): the read loop.                               *)
(***************************************************************************)
EXIT    == <<"e", "x", "i", "t">>
HELP    == <<"h", "e", "l", "p">>
CLEAR   == <<"c", "l", "e", "a", "r">>
HISTORY == <<"h", "i", "s", "t", "o", "r", "y">>
MR      == <<"m", "r">>
MC      == <<"m", "c">>
MS_     == <<"m", "s", " ">>
MPLUS_  == <<"m", "+", " ">>

\* the lines the reader hands to the loop
ReplLines ==
    {Line("repl", t, <<>>, NoNum, "", NoNum, <<>>) :
        t \in {EXIT, HELP, CLEAR, HISTORY, MR, MC,
               <<"E", "X", "I", "T">>,
               <<"m", "s", " ", "5">>,
               <<"m", "s", " ", "x">>,
               <<"m", "s">>,
               <<"m", "+", " ", " ", "2", ".", "5">>,
               <<"m", "+", " ", "x">>,
               <<" ", "2", " ", "+", " ", "3", " ">>,
               <<"2", " ", "/", " ", "0">>,
               <<"f", "a", "c", "t", " ", "3">>,
               <<"f", "a", "c", "t", " ", "1", "2">>,
               <<"f", "a", "c", "t", " ", "-", "1">>,
               <<"s", "q", "r", "t">>}}

\* Err(ReadlineError::Interrupted), Err(ReadlineError::Eof), Err(err)
ReaderErrors == {"Interrupted", "Eof", "Other"}

NoLine == Line("none", <<>>, <<>>, NoNum, "", NoNum, <<>>)

\* an error that ends the loop
LoopAfterError_break == "done"

\* where the loop goes after it has displayed an error (main.rs:237, 239)
LoopAfterError == "read"

Init ==
    /\ pc = "read"
    /\ rd = [kind |-> "none", line |-> NoLine]
    /\ op = None
    /\ res = None
    /\ out = ShowText("help")
    /\ memory = FromInt(0)
    /\ history = <<>>
    /\ consumed = <<>>
    /\ fold_acc = None
    /\ fold_x = 0
    /\ fold_n = 0

\* the end of one pass of the loop body
Handled(input, next, o, r, shown, mem, hist) ==
    /\ pc' = next
    /\ op' = o
    /\ res' = r
    /\ out' = shown
    /\ memory' = mem
    /\ history' = hist
    /\ consumed' = Append(consumed, input)
    /\ UNCHANGED <<fold_acc, fold_x, fold_n>>

\* ms <number>, m+ <number> (main.rs:218-229)
MemoryCommand(input) ==
    LET value == from_str(trim(Drop(input, 3))) IN
    IF value.t = "Err"
    THEN Handled(input, LoopAfterError, None, None, ShowError("Invalid number format"),
                 memory, history)
    ELSE IF starts_with(input, MS_)
    THEN Handled(input, "read", None, None, ShowText("Value stored in memory."),
                 store_in_memory(memory, value.v), history)
    ELSE Handled(input, "read", None, None, ShowText("Value added to memory."),
                 add_to_memory(memory, value.v), history)

\* match parse_expression(input) (main.rs:231-240); the fold of a Factorial
\* whose argument passes the check of main.rs:110 is run step by step.
Expression(input) ==
    LET p == parse_expression(input) IN
    IF p.t = "Err"
    THEN Handled(input, LoopAfterError, p, None, ShowError(p.e), memory, history)
    ELSE IF p.v.tag = "Factorial" /\ ~FactorialFails(p.v.a)
    THEN /\ pc' = "fold"
         /\ op' = p
         /\ res' = None
         /\ fold_acc' = FromInt(1)
         /\ fold_x' = 1
         /\ fold_n' = AsU64(p.v.a)
         /\ UNCHANGED <<out, memory, history, consumed>>
    ELSE LET r == calculate(p.v) IN
         IF r.t = "Ok"
         THEN Handled(input, "read", p, r, ShowResult(r.v), memory,
                      add_to_history(history, input, r.v))
         ELSE Handled(input, LoopAfterError, p, r, ShowError(r.e), memory, history)

\* Ok(line) (main.rs:203-244)
ReadLine ==
    /\ pc = "read"
    /\ Len(consumed) < MaxLinesRead
    /\ \E l \in ReplLines :
          LET input == trim(l.text) IN
          /\ rd' = [kind |-> "Ok", line |-> l]
          /\ IF input = EXIT
             THEN Handled(input, "done", None, None, ShowText("Goodbye!"), memory, history)
             ELSE IF input = HELP
             THEN Handled(input, "read", None, None, ShowText("help"), memory, history)
             ELSE IF input = CLEAR
             THEN Handled(input, "read", None, None, ShowText("clear"), memory, history)
             ELSE IF input = HISTORY
             THEN Handled(input, "read", None, None, ShowHistory(history), memory, history)
             ELSE IF input = MR
             THEN Handled(input, "read", None, None, ShowMemory(recall_memory(memory)),
                          memory, history)
             ELSE IF input = MC
             THEN Handled(input, "read", None, None, ShowText("Memory cleared."),
                          clear_memory(memory), history)
             ELSE IF starts_with(input, MS_) \/ starts_with(input, MPLUS_)
             THEN MemoryCommand(input)
             ELSE Expression(input)

\* one turn of (1..=n).fold(1.0, |acc, x| acc * x as f64) (main.rs:114)
FoldStep ==
    /\ pc = "fold"
    /\ fold_x <= fold_n
    /\ fold_acc' = FoldBody(fold_acc, fold_x)
    /\ fold_x' = fold_x + 1
    /\ UNCHANGED <<pc, rd, op, res, out, memory, history, consumed, fold_n>>

\* the fold is over: Ok(acc) goes back to main (main.rs:114, 233-236)
FoldDone ==
    /\ pc = "fold"
    /\ fold_x > fold_n
    /\ pc' = "read"
    /\ res' = Ok(fold_acc)
    /\ out' = ShowResult(fold_acc)
    /\ history' = add_to_history(history, trim(rd.line.text), fold_acc)
    /\ consumed' = Append(consumed, trim(rd.line.text))
    /\ UNCHANGED <<rd, op, memory, fold_acc, fold_x, fold_n>>

\* Err(..) from rl.readline (main.rs:245-256)
ReadError ==
    /\ pc = "read"
    /\ \E k \in ReaderErrors :
          /\ rd' = [kind |-> k, line |-> NoLine]
          /\ out' = ShowText(k)
    /\ pc' = "done"
    /\ UNCHANGED <<op, res, memory, history, consumed, fold_acc, fold_x, fold_n>>

Next == ReadLine \/ FoldStep \/ FoldDone \/ ReadError

Spec == Init /\ [][Next]_vars

\* main is one thread: a fold that has begun goes on.
FairSpec == Spec /\ WF_vars(FoldStep) /\ WF_vars(FoldDone)

(***************************************************************************)
(* What the claims speak of, read off the description of a line and not    *)
(* off the program's own parse of it.                                      *)
(***************************************************************************)
\* the number a numeral denotes
GenValue(g) ==
    LET scale == Pow10(Len(g.fp))
        mag   == DigitsToInt(g.ip) * scale + DigitsToInt(g.fp)
    IN  MkRat(IF g.neg THEN -mag ELSE mag, scale)

GenIsZero(g)      == \A i \in 1..Len(g.ip \o g.fp) : (g.ip \o g.fp)[i] = "0"
GenIsNegative(g)  == g.neg /\ ~GenIsZero(g)
GenHasFraction(g) == \E i \in 1..Len(g.fp) : g.fp[i] # "0"

VariantOf(o) ==
    CASE o = "+" -> "Add" [] o = "-" -> "Subtract" [] o = "*" -> "Multiply"
      [] o = "/" -> "Divide" [] o = "^" -> "Power"

\* a o b in f64 arithmetic
Direct(a, o, b) ==
    CASE o = "+" -> F64Add(a, b) [] o = "-" -> F64Sub(a, b) [] o = "*" -> F64Mul(a, b)
      [] o = "/" -> F64Div(a, b) [] o = "^" -> powf(a, b)

Recognized == pc \in {"calc", "end"}
Finished   == pc = "end"
Shape(sh)  == rd.kind = "Ok" /\ rd.line.shape = sh

\* C1: for the text `a op b` of signed decimal numerals a, b and an operator
\* op of + - * / ^ (b # 0 for /), with or without whitespace around op,
\* parse_expression returns the variant of op carrying (a, b), and calculate
\* on it returns a op b.
C1_BinaryRoundTrip ==
    Shape("bin") =>
        LET a == GenValue(rd.line.a)
            b == GenValue(rd.line.b)
            o == rd.line.o
        IN  /\ Recognized => op = Ok(Binary(VariantOf(o), a, b))
            /\ (Finished /\ ~(o = "/" /\ GenIsZero(rd.line.b))) => res = Ok(Direct(a, o, b))

\* `-.5 ^ -2` has run to its result 4
C1_Witness ==
    /\ Shape("bin") /\ Finished
    /\ rd.line.text = <<"-", ".", "5", "^", "-", "2">>
    /\ res = Ok(FromInt(4))

\* C2: `a / 0` is recognized as Divide(a, 0) and calculate fails on it with the
\* division-by-zero error; calculate(Divide(a, b)) is an error exactly when
\* b == 0.
C2_DivisionByZero ==
    (Shape("bin") /\ rd.line.o = "/") =>
        /\ Recognized => op = Ok(Binary("Divide", GenValue(rd.line.a), GenValue(rd.line.b)))
        /\ Finished => /\ (res.t = "Err") <=> GenIsZero(rd.line.b)
                       /\ GenIsZero(rd.line.b) => res = Err("Division by zero!")

\* `12.5 / -0.0` was recognized and failed at evaluation
C2_Witness ==
    /\ Shape("bin") /\ Finished
    /\ rd.line.text = <<"1", "2", ".", "5", " ", "/", " ", "-", "0", ".", "0">>
    /\ op.t = "Ok"
    /\ res = Err("Division by zero!")

\* the product of the integers 1..=k in f64
RECURSIVE ProductUpTo(_)
ProductUpTo(k) == IF k = 0 THEN FromInt(1) ELSE F64Mul(ProductUpTo(k - 1), FromInt(k))

IsFact(f) == f = <<"f", "a", "c", "t">>

\* C3: `fact a` is always recognized; calculate(Factorial(a)) is the
\* factorial-undefined error exactly when a < 0 or a has a non-zero fraction,
\* and otherwise the product of the integers 1..=a.
C3_Factorial ==
    (Shape("fn") /\ IsFact(rd.line.f)) =>
        LET g == rd.line.a IN
        /\ Recognized => op = Ok(Unary("Factorial", GenValue(g)))
        /\ Finished =>
              IF GenIsNegative(g) \/ GenHasFraction(g)
              THEN res = Err("Factorial only defined for non-negative integers!")
              ELSE res = Ok(ProductUpTo(DigitsToInt(g.ip)))

\* `fact(5)` has run to 120
C3_Witness ==
    /\ Shape("fn") /\ Finished
    /\ rd.line.text = <<"f", "a", "c", "t", "(", "5", ")">>
    /\ res = Ok(FromInt(120))

\* -?\d*\.?\d+ said without the pattern: after an optional minus, digits with
\* at most one point, which is not last.
IsNumeralText(t) ==
    LET body == IF t # <<>> /\ Head(t) = "-" THEN Tail(t) ELSE t IN
    /\ body # <<>>
    /\ IsDigitClass(body[Len(body)])
    /\ \A i \in 1..Len(body) : IsDigitClass(body[i]) \/ body[i] = "."
    /\ Cardinality({i \in 1..Len(body) : body[i] = "."}) <= 1

\* the whole of s is numeral, operator, numeral
IsBinaryText(s) ==
    \E j \in {p \in 1..Len(s) : s[p] \in OpChars} :
        /\ IsNumeralText(trim_end(SubSeq(s, 1, j - 1)))
        /\ IsNumeralText(trim_start(SubSeq(s, j + 1, Len(s))))

\* the whole of s is keyword, optional "(", numeral, optional ")"
IsFunctionText(s) ==
    \E f \in Keywords :
        /\ starts_with(s, f)
        /\ LET r == trim_start(Drop(s, Len(f))) IN
           \E l \in {0, 1}, c \in {0, 1} :
              /\ l = 1 => (r # <<>> /\ Head(r) = "(")
              /\ c = 1 => (Len(r) > l /\ r[Len(r)] = ")")
              /\ IsNumeralText(SubSeq(r, 1 + l, Len(r) - c))

MalformedShapes == {"trailing", "leading", "missing", "bare", "word"}

\* C4: parse_expression yields an Operation only if the whole normalized text
\* is a binary operation or a function call; a text with leading or trailing
\* unmatched characters, a missing operand, a keyword without a number or an
\* unknown word gets the error "Invalid expression format", and nothing is
\* evaluated.
C4_WholeLineOrError ==
    Recognized =>
        /\ op.t = "Ok" =>
              \/ IsBinaryText(normalize(rd.line.text))
              \/ IsFunctionText(normalize(rd.line.text))
        /\ rd.line.shape \in MalformedShapes =>
              /\ op = Err("Invalid expression format")
              /\ res = None

\* `2+2x` was rejected
C4_Witness ==
    /\ Shape("trailing") /\ Finished
    /\ rd.line.text = <<"2", "+", "2", "x">>
    /\ op = Err("Invalid expression format")

PI_VALUE ==
    [t |-> "lit", neg |-> FALSE, ip |-> <<"3">>,
     fp |-> <<"1", "4", "1", "5", "9", "2", "6", "5", "3", "5", "8", "9", "7", "9", "3">>]

E_VALUE ==
    [t |-> "lit", neg |-> FALSE, ip |-> <<"2">>,
     fp |-> <<"7", "1", "8", "2", "8", "1", "8", "2", "8", "4", "5", "9", "0", "4", "5">>]

ConstantValue(c) == IF c \in {<<"e">>, <<"E">>} THEN E_VALUE ELSE PI_VALUE

\* the operation each line of EmbeddedLines stands for once every e in it is
\* the literal of Euler's number
EmbeddedMeaning(t) ==
    CASE t = <<"s", "i", "n", "e">> -> Ok(Unary("Sine", E_VALUE))
      [] t = <<"a", "b", "s", "E">> -> Ok(Unary("Absolute", E_VALUE))
      [] t = <<"1", "e", "5", "+", "2">> ->
            Ok(Binary("Add",
                      [t |-> "lit", neg |-> FALSE, ip |-> <<"1", "2">>,
                       fp |-> E_VALUE.fp \o <<"5">>],
                      FromInt(2)))
      [] t = <<"2", "+", "3", "e">> ->
            Ok(Binary("Add", FromInt(2),
                      [t |-> "lit", neg |-> FALSE, ip |-> <<"3", "2">>, fp |-> E_VALUE.fp]))
      [] t = <<"e", "^", "e">> -> Ok(Binary("Power", E_VALUE, E_VALUE))
      [] t = <<"p", "i", "e">> -> Err("Invalid expression format")
      [] t = <<"h", "e", "l", "l", "o">> -> Err("Invalid expression format")

\* C7: the constants are substituted in the lowercased text before a pattern
\* is tried, pi first and then every letter e wherever it stands, so that
\* `a op pi` and `a op e` are binary operations whose second operand is the
\* constant, and an e inside a word or a numeral is the literal too.
C7_ConstantSubstitution ==
    Recognized =>
        /\ Shape("const") =>
              op = Ok(Binary(VariantOf(rd.line.o), GenValue(rd.line.a),
                             ConstantValue(rd.line.c)))
        /\ Shape("embedded") => op = EmbeddedMeaning(rd.line.text)

\* `2 * PI` was recognized as Multiply(2, pi)
C7_Witness ==
    /\ Shape("const") /\ Recognized
    /\ rd.line.text = <<"2", " ", "*", " ", "P", "I">>
    /\ op = Ok(Binary("Multiply", FromInt(2), PI_VALUE))

\* C8: calculate(SquareRoot(a)) is an error exactly when a < 0;
\* calculate(Logarithm(a)) and calculate(NaturalLog(a)) are errors exactly
\* when a <= 0; each has a message of its own.
C8_DomainErrors ==
    (Shape("fn") /\ Finished) =>
        LET g == rd.line.a
            f == rd.line.f
        IN  /\ f = <<"s", "q", "r", "t">> =>
                  /\ op = Ok(Unary("SquareRoot", GenValue(g)))
                  /\ IF GenIsNegative(g)
                     THEN res = Err("Cannot calculate square root of negative number!")
                     ELSE res.t = "Ok"
            /\ f = <<"l", "o", "g">> =>
                  IF GenIsNegative(g) \/ GenIsZero(g)
                  THEN res = Err("Cannot calculate logarithm of non-positive number!")
                  ELSE res.t = "Ok"
            /\ f = <<"l", "n">> =>
                  IF GenIsNegative(g) \/ GenIsZero(g)
                  THEN res = Err("Cannot calculate natural logarithm of non-positive number!")
                  ELSE res.t = "Ok"

\* `sqrt 0` succeeded, where `log 0` and `ln 0` fail
C8_Witness ==
    /\ Shape("fn") /\ Finished
    /\ rd.line.text = <<"s", "q", "r", "t", " ", "0">>
    /\ res.t = "Ok"

(***************************************************************************)
(* The read loop.                                                          *)
(***************************************************************************)
\* a line main handles itself, without parse_expression
IsCommand(input) ==
    \/ input \in {EXIT, HELP, CLEAR, HISTORY, MR, MC}
    \/ starts_with(input, MS_)
    \/ starts_with(input, MPLUS_)

\* the error an expression line ends in, None when it ends in a result
ErrorOf(input) ==
    LET p == parse_expression(input) IN
    IF p.t = "Err" THEN p
    ELSE LET r == calculate(p.v) IN IF r.t = "Err" THEN r ELSE None

LineFails(input) == ~IsCommand(input) /\ ErrorOf(input) # None

LineHandled == pc = "read" /\ consumed' # consumed

\* an erroneous line leaves the loop reading, its message displayed
ErrorsAreDisplayed ==
    (LineHandled /\ LineFails(consumed'[Len(consumed')])) =>
        /\ pc' = "read"
        /\ out' = ShowError(ErrorOf(consumed'[Len(consumed')]).e)

LoopEndsOnlyBy(kinds) ==
    (pc # "done" /\ pc' = "done") =>
        \/ rd'.kind = "Ok" /\ trim(rd'.line.text) = EXIT
        \/ rd'.kind \in kinds

\* C5 as stated: no classification or evaluation error ends the loop, which
\* displays the message and reads on; the loop ends only by `exit` or by an
\* end-of-input or interrupt signal of the line reader.
C5_OnlyExitEofInterrupt ==
    [][ErrorsAreDisplayed /\ LoopEndsOnlyBy({"Interrupted", "Eof"})]_vars

\* C5 amended: ... the loop ends only by `exit` or by an error of the line
\* reader: interrupt, end of input, or any other error rl.readline returns.
C5_OnlyExitOrReaderError ==
    [][ErrorsAreDisplayed /\ LoopEndsOnlyBy(ReaderErrors)]_vars

\* after `2 / 0` failed, the loop is reading with the error on display
C5_Witness ==
    /\ pc = "read"
    /\ consumed # <<>>
    /\ consumed[Len(consumed)] = <<"2", " ", "/", " ", "0">>
    /\ out = ShowError("Division by zero!")

Min(i, j) == IF i < j THEN i ELSE j

FoldRunsToEnd == (pc = "fold") ~> (pc = "read")

\* the fold leaves with Ok(product of 1..=n) after n turns
FoldLeavesAfter ==
    [][(pc = "fold" /\ pc' = "read") =>
            /\ fold_x = fold_n + 1
            /\ res' = Ok(ProductUpTo(fold_n))]_vars

\* C9 as stated: the evaluation of Factorial(a), a >= 0 without fraction,
\* always finishes, after n = a multiplications, with a result (an infinity
\* for a large a) and never with an error, and the loop reads the next line.
C9_FoldTakesArgumentSteps ==
    /\ FoldRunsToEnd
    /\ FoldLeavesAfter
    /\ [](pc = "fold" => fold_n = op.v.a.n)

\* C9 amended: ... after n multiplications, where n is a, or u64::MAX when a
\* is larger than u64::MAX (`a as u64` saturates) ...
C9_FoldTakesSaturatedSteps ==
    /\ FoldRunsToEnd
    /\ FoldLeavesAfter
    /\ [](pc = "fold" => fold_n = Min(op.v.a.n, U64_MAX))

\* `fact 12` has finished with an infinity and the loop is reading again
C9_Witness ==
    /\ pc = "read"
    /\ consumed # <<>>
    /\ consumed[Len(consumed)] = <<"f", "a", "c", "t", " ", "1", "2">>
    /\ res = Ok(Inf(FALSE))
    /\ fold_x = fold_n + 1

\* the entries of the lines that ran to a result, in the order of the lines
RECURSIVE HistoryOf(_)
HistoryOf(lines) ==
    IF lines = <<>> THEN <<>>
    ELSE LET input == lines[Len(lines)]
             before == HistoryOf(SubSeq(lines, 1, Len(lines) - 1))
         IN  IF IsCommand(input) \/ ErrorOf(input) # None THEN before
             ELSE before \o <<[expression |-> input,
                               result |-> calculate(parse_expression(input).v).v]>>

\* ms sets, m+ adds, mc resets; nothing else touches the register
RECURSIVE MemoryOf(_)
MemoryOf(lines) ==
    IF lines = <<>> THEN FromInt(0)
    ELSE LET input == lines[Len(lines)]
             before == MemoryOf(SubSeq(lines, 1, Len(lines) - 1))
             value == from_str(trim(Drop(input, 3)))
         IN  IF input = MC THEN FromInt(0)
             ELSE IF starts_with(input, MS_) /\ value.t = "Ok" THEN value.v
             ELSE IF starts_with(input, MPLUS_) /\ value.t = "Ok" THEN F64Add(before, value.v)
             ELSE before

\* C10: the history holds exactly one entry, in input order, for each line
\* that was recognized and evaluated with success; an erroneous line and a
\* command add none and remove none; the memory register changes only by ms
\* (set), m+ (add) and mc (reset to 0), never by an expression.
C10_HistoryAndMemoryFrame ==
    /\ history = HistoryOf(consumed)
    /\ memory = MemoryOf(consumed)

\* `m+  2.5` and then `2 + 3`: one entry, the register still 2.5
C10_Witness ==
    /\ Len(consumed) = 2
    /\ consumed[2] = <<"2", " ", "+", " ", "3">>
    /\ history = <<[expression |-> <<"2", " ", "+", " ", "3">>, result |-> FromInt(5)]>>
    /\ memory = MkRat(5, 2)

====
